---- MODULE Spec2Model ----
(***************************************************************************)
(* Model of the Smart-T-shirt backend (src/backend/app.py): a Flask app    *)
(* holding three module globals (generation_mode, current_time_ms, phase)  *)
(* and three routes (GET /status, POST /set_mode/<mode>, GET /data).       *)
(*                                                                         *)
(* Units.  phase is a Python float that only ever takes the values         *)
(* 0.5*a + 0.45*b; it is held here as an integer count of 0.05 rad.        *)
(* Point values are held in hundredths (the code rounds to 2 decimals),    *)
(* intermediate values in 1e-7 units.  The wall clock is held in           *)
(* microseconds, so that int(time.time() * 1000) truncates.                *)
(***************************************************************************)
EXTENDS Integers, Sequences, FiniteSets, TLC

VARIABLES
    generation_mode,   \* app.py:11  module global
    current_time_ms,   \* app.py:12  module global
    phase,             \* app.py:13  module global, in units of 0.05 rad
    wall,              \* the wall clock read by time.time(), in 1/1024 s
    req,               \* the request being served by the last step
    resp,              \* the response it got
    nreq,              \* number of requests served
    nticks,            \* number of wall-clock advances
    k,                 \* history: points generated since the last restart
    restartWallMs,     \* history: wall clock (ms) at the last restart
    restarts,          \* history: number of restarts (Stopped -> running)
    pre,               \* history: clock and phase just before the last restart
    prevTime,          \* history: time of the latest point since the restart
    lastSet,           \* history: mode of the last accepted set_mode request
    statusRun,         \* history: GET /status answers since the last set_mode
    repeatSet,         \* history: the last two requests were the same accepted set_mode
    pc,                \* concurrent execution: position of each request thread
    loc,               \* concurrent execution: locals of each request thread
    out,               \* concurrent execution: response of each finished thread
    start,             \* concurrent execution: the globals when the threads start
    cli                \* control_backend.py: the command-line process

concVars == <<pc, loc, out, start>>

cliVars == <<cli>>

vars == <<generation_mode, current_time_ms, phase, wall, req, resp, nreq,
          nticks, k, restartWallMs, restarts, pre, prevTime, lastSet,
          statusRun, repeatSet, pc, loc, out, start, cli>>

----------------------------------------------------------------------------
(* Bounds of the model *)

MaxReq == 5
MaxTicks == 2
MaxArgv == 2

(* Inputs *)

ModeInputs == {"stopped", "normal", "abnormal", "stop", "Normal"}
InitWall == {1946}
TickSteps == {31, 1024}
SpikeRolls == {12, 13}
UniformRolls == {8, 127}

NoTime == [sec |-> -1, usec |-> -1]

----------------------------------------------------------------------------
(* Arithmetic of generate_ecg_point *)

(* Values are in units of 1e-7.  A result of random.random() is a multiple  *)
(* of 2^-53; the model draws multiples of 1/128, and a reading of            *)
(* time.time() is a multiple of 1/1024 s.  On these inputs every float       *)
(* operation of l.30-31 and of int(time.time() * 1000) is exact, so the      *)
(* integer arithmetic below is the arithmetic of the code.                   *)
SinScale == 10000000
RollScale == 128
WallScale == 1024

SinTable ==
    <<0, 499792, 998334, 1494381, 1986693, 2474040, 2955202, 3428978,
    3894183, 4349655, 4794255, 5226872, 5646425, 6051864, 6442177, 6816388,
    7173561, 7512804, 7833269, 8134155, 8414710, 8674232, 8912074, 9127639,
    9320391, 9489846, 9635582, 9757234, 9854497, 9927130, 9974950, 9997838,
    9995736, 9968650, 9916648, 9839859, 9738476, 9612752, 9463001, 9289597,
    9092974, 8873624, 8632094, 8368988, 8084964, 7780732, 7457052, 7114734,
    6754632, 6377647, 5984721, 5576837, 5155014, 4720305, 4273799, 3816610,
    3349882, 2874780, 2392493, 1904226, 1411200, 914646, 415807, -84072,
    -583741, -1081951, -1577457, -2069020, -2555411, -3035415, -3507832,
    -3971482, -4425204, -4867866, -5298361, -5715613, -6118579, -6506251,
    -6877662, -7231881, -7568025, -7885253, -8182771, -8459837, -8715758,
    -8949894, -9161659, -9350526, -9516021, -9657731, -9775301, -9868439,
    -9936910, -9980544, -9999233, -9992928, -9961646, -9905465, -9824526,
    -9719031, -9589243, -9435487, -9258147, -9057666, -8834547, -8589345,
    -8322674, -8035202, -7727645, -7400773, -7055403, -6692399, -6312666,
    -5917156, -5506855, -5082791, -4646022, -4197640, -3738767, -3270548,
    -2794155>>

Sin(ph) == SinTable[ph + 1]

(* round(value, 2) of the float nearest to raw / 1e7: the decimal nearest   *)
(* to the float's exact binary value, ties to even.  raw is a tie in        *)
(* decimal when it ends in 50000, and the float nearest to it is then below *)
(* it, above it, or equal to it (a multiple of 1/8).  A spike value         *)
(* Uniform(a, b, r) is itself a float, so its ties are of the last kind.    *)
(* With                                                                     *)
(* d = k/200 and 2^e <= d < 2^(e+1), the float is round(d * 2^(52-e)) /     *)
(* 2^(52-e), and the fraction of d * 2^(52-e) is (k * 2^(49-e) mod 25)/25.  *)
(* 2^n mod 25, n >= 0: the powers of 2 repeat modulo 25 with period 20. *)
Pow2Mod25(n) ==
    <<1, 2, 4, 8, 16, 7, 14, 3, 6, 12, 24, 23, 21, 17, 9, 18, 11, 22, 19,
      13>>[(n % 20) + 1]

Pow2(n) ==
    <<1, 2, 4, 8, 16, 32, 64, 128, 256, 512, 1024, 2048, 4096, 8192, 16384,
      32768, 65536, 131072, 262144, 524288, 1048576, 2097152, 4194304,
      8388608, 16777216>>[n + 1]

(* The e with 2^e <= raw / 1e7 < 2^(e+1), for raw >= 1. *)
BinadeExp(raw) ==
    IF raw >= SinScale
    THEN LET v == raw \div SinScale
         IN  CHOOSE e \in 0..7 : Pow2(e) <= v /\ v < Pow2(e + 1)
    ELSE LET c == (SinScale + raw - 1) \div raw
         IN  0 - (CHOOSE e \in 1..24 : Pow2(e) >= c /\ Pow2(e - 1) < c)

TieRoundsUp(raw) ==
    LET q == raw \div (SinScale \div 100)
        k25 == (raw \div (SinScale \div 200)) % 25
        r == (k25 * Pow2Mod25(49 - BinadeExp(raw))) % 25
    IN  IF r = 0 THEN q % 2 = 1 ELSE 2 * r > 25

Round2(raw) ==
    LET unit == SinScale \div 100
        q == raw \div unit
        rem == raw % unit
    IN  IF 2 * rem < unit THEN q
        ELSE IF 2 * rem > unit THEN q + 1
        ELSE IF TieRoundsUp(raw) THEN q + 1 ELSE q

NormalValue(ph) == Sin(ph) * 50 + 60 * SinScale

AbnormalValue(ph) == Sin(ph) * 40 + 65 * SinScale

Uniform(a, b, r) == a * SinScale + (b - a) * r * (SinScale \div RollScale)

NormalPhaseStep == 10
AbnormalPhaseStep == 9
SpikeOneIn == 10
time_increment_ms == 100

IsSpike(rolls) == SpikeOneIn * rolls[1] < RollScale

IsoFormat(ms) == [sec |-> ms \div 1000, usec |-> (ms % 1000) * 1000]

WallClockMs(now) == (now * 1000) \div WallScale

----------------------------------------------------------------------------
(* generate_ecg_point, app.py:16-44.  rolls is the sequence of values the   *)
(* calls of random.random() return, in call order (each in 1e-6 units):     *)
(* rolls[1] decides the spike, rolls[2] is the draw inside random.uniform.  *)

GenValue(gm, ph, rolls) ==
    IF gm = "normal" THEN NormalValue(ph)
    ELSE IF gm = "abnormal"
         THEN IF IsSpike(rolls) THEN Uniform(130, 180, rolls[2])
              ELSE AbnormalValue(ph)
         ELSE 0

(* Variant: the abnormal branch advances the phase on a spike too. *)
GenPhaseSpikeAdvances(gm, ph, rolls) ==
    IF gm = "normal" THEN ph + NormalPhaseStep
    ELSE IF gm = "abnormal" THEN ph + AbnormalPhaseStep
    ELSE ph

GenPhase(gm, ph, rolls) ==
    IF gm = "normal" THEN ph + NormalPhaseStep
    ELSE IF gm = "abnormal"
         THEN IF IsSpike(rolls) THEN ph ELSE ph + AbnormalPhaseStep
         ELSE ph

(* Variant: the point carries the real time, not the calculated one. *)
SimulatedTimestampReal(ts, now) == IsoFormat(WallClockMs(now))

SimulatedTimestamp(ts, now) == IsoFormat(ts)

generate_ecg_point(gm, ts, ph, now, rolls) ==
    LET value == GenValue(gm, ph, rolls)
        newTs == ts + time_increment_ms
    IN  [current_time_ms |-> newTs,
         phase |-> GenPhase(gm, ph, rolls),
         point |-> [time |-> SimulatedTimestamp(newTs, now),
                    value |-> Round2(value)]]

(* Number of random draws generate_ecg_point makes. *)
NumDraws(gm, rolls) ==
    IF gm = "abnormal"
    THEN IF Len(rolls) >= 1 /\ IsSpike(rolls) THEN 2 ELSE 1
    ELSE 0

----------------------------------------------------------------------------
(* The routes.  Each operator returns the globals after the call and the    *)
(* response (status, JSON body).                                            *)

(* Variant: the handler answers the mode the module was imported with. *)
get_status_stale(gm) == [status |-> 200, body |-> [mode |-> "stopped"]]

get_status(gm) == [status |-> 200, body |-> [mode |-> gm]]

(* Variant: the list in the order of the comment of line 10. *)
valid_modes_reordered == <<"stopped", "normal", "abnormal">>

valid_modes == <<"normal", "abnormal", "stopped">>

(* Variant: the allow-list still holds the old name 'stop' that the        *)
(* docstring of set_mode mentions.                                          *)
IsValidModeLegacy(mode) ==
    mode \in {"normal", "abnormal", "stopped", "stop"}

IsValidMode(mode) == \E i \in DOMAIN valid_modes : valid_modes[i] = mode

(* Variants of the reset condition: never reset; reset on every start      *)
(* request; reset on every change to a running mode.                        *)
NeedsResetNever(gm, mode) == FALSE

NeedsResetOnStart(gm, mode) == mode # "stopped"

NeedsResetOnChange(gm, mode) == gm # mode /\ mode # "stopped"

NeedsReset(gm, mode) == gm = "stopped" /\ mode # "stopped"

(* Variant: the restart resets the clock and keeps the phase. *)
ResetPhaseKeep(ph) == ph

ResetPhase(ph) == 0

(* Variant: the assignment of line 62 sits inside the reset branch. *)
NewModeOnResetOnly(gm, mode) == IF NeedsReset(gm, mode) THEN mode ELSE gm

NewMode(gm, mode) == mode

RECURSIVE JoinComma(_)
JoinComma(seq) ==
    IF Len(seq) = 0 THEN <<>>
    ELSE IF Len(seq) = 1 THEN seq
    ELSE <<seq[1], ", ">> \o JoinComma(Tail(seq))

set_mode(gm, ts, ph, now, mode) ==
    IF IsValidMode(mode)
    THEN LET reset == NeedsReset(gm, mode)
             newTs == IF reset THEN WallClockMs(now) ELSE ts
             newPh == IF reset THEN ResetPhase(ph) ELSE ph
             newGm == NewMode(gm, mode)
         IN  [generation_mode |-> newGm,
              current_time_ms |-> newTs,
              phase |-> newPh,
              status |-> 200,
              body |-> [status |-> "success", new_mode |-> newGm]]
    ELSE [generation_mode |-> gm,
          current_time_ms |-> ts,
          phase |-> ph,
          status |-> 400,
          body |-> [status |-> "error",
                    message |-> <<"Invalid mode. Use one of: ">>
                                \o JoinComma(valid_modes)]]

(* Variant: get_data tests the old name 'stop'. *)
IsStoppedLegacy(gm) == gm = "stop"

IsStopped(gm) == gm = "stopped"

get_data(gm, ts, ph, now, rolls) ==
    IF IsStopped(gm)
    THEN [current_time_ms |-> ts, phase |-> ph, status |-> 200, body |-> <<>>]
    ELSE LET g == generate_ecg_point(gm, ts, ph, now, rolls)
         IN  [current_time_ms |-> g.current_time_ms,
              phase |-> g.phase,
              status |-> 200,
              body |-> <<g.point>>]

----------------------------------------------------------------------------
(* History variables, updated from what a step is observed to do. *)

Restarted == generation_mode = "stopped" /\ generation_mode' # "stopped"

Pointed == req'.op = "data" /\ Len(resp'.body) = 1

History ==
    /\ k' = IF Restarted THEN 0 ELSE IF Pointed THEN k + 1 ELSE k
    /\ restartWallMs' = IF Restarted THEN WallClockMs(wall) ELSE restartWallMs
    /\ restarts' = IF Restarted THEN restarts + 1 ELSE restarts
    /\ pre' = IF Restarted
              THEN [ts |-> current_time_ms, phase |-> phase]
              ELSE pre
    /\ prevTime' = IF Restarted THEN NoTime
                   ELSE IF Pointed THEN resp'.body[1].time ELSE prevTime
    /\ lastSet' = IF req'.op = "set_mode" /\ resp'.status = 200
                  THEN req'.mode
                  ELSE lastSet
    /\ statusRun' = IF req'.op = "set_mode" THEN [mode |-> "none", n |-> 0]
                    ELSE IF req'.op = "status"
                         THEN [mode |-> resp'.body.mode, n |-> statusRun.n + 1]
                         ELSE statusRun
    /\ repeatSet' = (/\ req'.op = "set_mode" /\ resp'.status = 200
                     /\ req.op = "set_mode" /\ resp.status = 200
                     /\ req'.mode = req.mode)

----------------------------------------------------------------------------
(* No request thread and no command-line process is running. *)

DataThreads == {"d1", "d2"}

SetThreads == {"s"}

Threads == DataThreads \cup SetThreads

LocInit ==
    [mode |-> "", branch |-> "", rolls |-> <<>>, value |-> 0, tmp |-> 0,
     printed |-> ""]

ConcIdle ==
    /\ pc = [t \in Threads |-> "idle"]
    /\ loc = [t \in Threads |-> LocInit]
    /\ out = [t \in Threads |-> [status |-> 0, body |-> <<>>]]
    /\ start = [mode |-> generation_mode, ts |-> current_time_ms,
                phase |-> phase]

NoOutcome == [kind |-> "none", status |-> 0, json |-> FALSE, body |-> ""]

CliIdle ==
    cli = [pc |-> "none", called |-> FALSE, mode |-> "", posts |-> 0,
           exit |-> 0, outcome |-> NoOutcome]

----------------------------------------------------------------------------
(* Serialized execution: every request is served to completion before the   *)
(* next one starts.                                                         *)

Init ==
    /\ generation_mode = "stopped"
    /\ wall \in InitWall
    /\ current_time_ms = WallClockMs(wall)
    /\ phase = 0
    /\ req = [op |-> "none", mode |-> "", rolls |-> <<>>]
    /\ resp = [status |-> 0, body |-> <<>>]
    /\ nreq = 0
    /\ nticks = 0
    /\ k = 0
    /\ restartWallMs = WallClockMs(wall)
    /\ restarts = 0
    /\ pre = [ts |-> WallClockMs(wall), phase |-> 0]
    /\ prevTime = NoTime
    /\ lastSet = "none"
    /\ statusRun = [mode |-> "none", n |-> 0]
    /\ repeatSet = FALSE
    /\ ConcIdle
    /\ CliIdle

Tick(d) ==
    /\ nticks < MaxTicks
    /\ wall' = wall + d
    /\ nticks' = nticks + 1
    /\ UNCHANGED <<generation_mode, current_time_ms, phase, req, resp, nreq,
                   k, restartWallMs, restarts, pre, prevTime, lastSet,
                   statusRun, repeatSet, concVars, cliVars>>

GetStatus ==
    /\ nreq < MaxReq
    /\ LET r == get_status(generation_mode)
       IN  /\ req' = [op |-> "status", mode |-> "", rolls |-> <<>>]
           /\ resp' = [status |-> r.status, body |-> r.body]
    /\ nreq' = nreq + 1
    /\ UNCHANGED <<generation_mode, current_time_ms, phase, wall, nticks>>
    /\ UNCHANGED <<concVars, cliVars>>
    /\ History

SetMode(mode) ==
    /\ nreq < MaxReq
    /\ LET r == set_mode(generation_mode, current_time_ms, phase, wall, mode)
       IN  /\ generation_mode' = r.generation_mode
           /\ current_time_ms' = r.current_time_ms
           /\ phase' = r.phase
           /\ req' = [op |-> "set_mode", mode |-> mode, rolls |-> <<>>]
           /\ resp' = [status |-> r.status, body |-> r.body]
    /\ nreq' = nreq + 1
    /\ UNCHANGED <<wall, nticks>>
    /\ UNCHANGED <<concVars, cliVars>>
    /\ History

GetData(rolls) ==
    /\ nreq < MaxReq
    /\ Len(rolls) = NumDraws(generation_mode, rolls)
    /\ LET r == get_data(generation_mode, current_time_ms, phase, wall, rolls)
       IN  /\ current_time_ms' = r.current_time_ms
           /\ phase' = r.phase
           /\ req' = [op |-> "data", mode |-> "", rolls |-> rolls]
           /\ resp' = [status |-> r.status, body |-> r.body]
    /\ nreq' = nreq + 1
    /\ UNCHANGED <<generation_mode, wall, nticks>>
    /\ UNCHANGED <<concVars, cliVars>>
    /\ History

RollSeqs ==
    {<<>>} \cup {<<u>> : u \in SpikeRolls}
           \cup {<<u, v>> : u \in SpikeRolls, v \in UniformRolls}

Next ==
    \/ \E d \in TickSteps : Tick(d)
    \/ GetStatus
    \/ \E mode \in ModeInputs : SetMode(mode)
    \/ \E rolls \in RollSeqs : GetData(rolls)

Spec == Init /\ [][Next]_vars

----------------------------------------------------------------------------
(* Concurrent execution: the handlers run in threads with no lock, so a     *)
(* thread can be preempted between any two accesses of the module globals.  *)
(* Each step below is one access (a read or a write) together with the      *)
(* thread-local computation that follows it.  Two threads serve GET /data   *)
(* and one serves POST /set_mode/<mode>, one request each.                  *)

serVars == <<req, resp, nreq, k, restartWallMs, restarts, pre, prevTime,
             lastSet, statusRun, repeatSet>>

(* States of the globals that a serialized execution reaches (dts is the    *)
(* clock's lead over the wall clock at import).                             *)
ConcStarts ==
    {[mode |-> "stopped", dts |-> 0, phase |-> 0],
     [mode |-> "normal", dts |-> 0, phase |-> 0],
     [mode |-> "normal", dts |-> 100, phase |-> 10],
     [mode |-> "abnormal", dts |-> 100, phase |-> 9],
     [mode |-> "stopped", dts |-> 100, phase |-> 10]}

ConcInit ==
    /\ wall \in InitWall
    /\ \E st \in ConcStarts :
          /\ generation_mode = st.mode
          /\ current_time_ms = WallClockMs(wall) + st.dts
          /\ phase = st.phase
    /\ req = [op |-> "none", mode |-> "", rolls |-> <<>>]
    /\ resp = [status |-> 0, body |-> <<>>]
    /\ nreq = 0
    /\ nticks = 0
    /\ k = 0
    /\ restartWallMs = WallClockMs(wall)
    /\ restarts = 0
    /\ pre = [ts |-> WallClockMs(wall), phase |-> 0]
    /\ prevTime = NoTime
    /\ lastSet = "none"
    /\ statusRun = [mode |-> "none", n |-> 0]
    /\ repeatSet = FALSE
    /\ ConcIdle
    /\ CliIdle

Goto(t, label) == pc' = [pc EXCEPT ![t] = label]

Reply(t, status, body) ==
    /\ out' = [out EXCEPT ![t] = [status |-> status, body |-> body]]
    /\ Goto(t, "done")

(* app.py:71-72, get_data: the mode check. *)
DataCheck(t) ==
    /\ pc[t] = "idle"
    /\ IF IsStopped(generation_mode)
       THEN Reply(t, 200, <<>>)
       ELSE Goto(t, "g24") /\ UNCHANGED out
    /\ UNCHANGED <<generation_mode, current_time_ms, phase, wall, nticks,
                   loc, start, serVars, cliVars>>

(* app.py:24, generate_ecg_point: first read of the mode. *)
DataRead24(t) ==
    /\ pc[t] = "g24"
    /\ IF generation_mode = "normal"
       THEN /\ loc' = [loc EXCEPT ![t].branch = "normal"]
            /\ Goto(t, "value")
       ELSE /\ UNCHANGED loc
            /\ Goto(t, "g28")
    /\ UNCHANGED <<generation_mode, current_time_ms, phase, wall, nticks,
                   out, start, serVars, cliVars>>

(* app.py:28-31 and 35-37: second read of the mode, the random draws, and   *)
(* the values that do not read the phase.                                   *)
DataRead28(t, rolls) ==
    /\ pc[t] = "g28"
    /\ IF generation_mode = "abnormal"
       THEN /\ Len(rolls) = NumDraws("abnormal", rolls)
            /\ IF IsSpike(rolls)
               THEN /\ loc' = [loc EXCEPT
                                 ![t].branch = "abnormal",
                                 ![t].rolls = rolls,
                                 ![t].value = GenValue("abnormal", 0, rolls)]
                    /\ Goto(t, "clockR")
               ELSE /\ loc' = [loc EXCEPT ![t].branch = "abnormal",
                                          ![t].rolls = rolls]
                    /\ Goto(t, "value")
       ELSE /\ rolls = <<>>
            /\ loc' = [loc EXCEPT ![t].branch = "stopped",
                                  ![t].value = GenValue("stopped", 0, rolls)]
            /\ Goto(t, "clockR")
    /\ UNCHANGED <<generation_mode, current_time_ms, phase, wall, nticks,
                   out, start, serVars, cliVars>>

(* app.py:26 / 33: the value, from a read of the phase. *)
DataValue(t) ==
    /\ pc[t] = "value"
    /\ loc' = [loc EXCEPT
                 ![t].value = GenValue(loc[t].branch, phase, loc[t].rolls)]
    /\ Goto(t, "phaseR")
    /\ UNCHANGED <<generation_mode, current_time_ms, phase, wall, nticks,
                   out, start, serVars, cliVars>>

(* app.py:27 / 34, phase += step: the read ... *)
DataPhaseRead(t) ==
    /\ pc[t] = "phaseR"
    /\ loc' = [loc EXCEPT ![t].tmp = phase]
    /\ Goto(t, "phaseW")
    /\ UNCHANGED <<generation_mode, current_time_ms, phase, wall, nticks,
                   out, start, serVars, cliVars>>

(* ... and the write. *)
DataPhaseWrite(t) ==
    /\ pc[t] = "phaseW"
    /\ phase' = GenPhase(loc[t].branch, loc[t].tmp, loc[t].rolls)
    /\ Goto(t, "clockR")
    /\ UNCHANGED <<generation_mode, current_time_ms, wall, nticks,
                   loc, out, start, serVars, cliVars>>

(* app.py:40, current_time_ms += time_increment_ms: the read ... *)
DataClockRead(t) ==
    /\ pc[t] = "clockR"
    /\ loc' = [loc EXCEPT ![t].tmp = current_time_ms]
    /\ Goto(t, "clockW")
    /\ UNCHANGED <<generation_mode, current_time_ms, phase, wall, nticks,
                   out, start, serVars, cliVars>>

(* ... and the write. *)
DataClockWrite(t) ==
    /\ pc[t] = "clockW"
    /\ current_time_ms' = loc[t].tmp + time_increment_ms
    /\ Goto(t, "stamp")
    /\ UNCHANGED <<generation_mode, phase, wall, nticks,
                   loc, out, start, serVars, cliVars>>

(* app.py:42-44 and 76: the time, from a fresh read of the clock, and the   *)
(* response.                                                                *)
DataStamp(t) ==
    /\ pc[t] = "stamp"
    /\ Reply(t, 200,
             <<[time |-> SimulatedTimestamp(current_time_ms, wall),
                value |-> Round2(loc[t].value)]>>)
    /\ UNCHANGED <<generation_mode, current_time_ms, phase, wall, nticks,
                   loc, start, serVars, cliVars>>

(* app.py:56-58 and 65-66, set_mode: the allow-list and the read of the     *)
(* mode in the reset condition.                                             *)
SetCheck(t, mode) ==
    /\ pc[t] = "idle"
    /\ loc' = [loc EXCEPT ![t].mode = mode]
    /\ IF IsValidMode(mode)
       THEN /\ Goto(t, IF NeedsReset(generation_mode, mode)
                       THEN "s60r" ELSE "s62")
            /\ UNCHANGED out
       ELSE Reply(t, 400,
                  [status |-> "error",
                   message |-> <<"Invalid mode. Use one of: ">>
                               \o JoinComma(valid_modes)])
    /\ UNCHANGED <<generation_mode, current_time_ms, phase, wall, nticks,
                   start, serVars, cliVars>>

(* app.py:60, the right-hand side: time.time() is sampled ... *)
SetSampleClock(t) ==
    /\ pc[t] = "s60r"
    /\ loc' = [loc EXCEPT ![t].tmp = WallClockMs(wall)]
    /\ Goto(t, "s60")
    /\ UNCHANGED <<generation_mode, current_time_ms, phase, wall, nticks,
                   out, start, serVars, cliVars>>

(* ... and stored. *)
SetResetClock(t) ==
    /\ pc[t] = "s60"
    /\ current_time_ms' = loc[t].tmp
    /\ Goto(t, "s61")
    /\ UNCHANGED <<generation_mode, phase, wall, nticks,
                   loc, out, start, serVars, cliVars>>

(* app.py:61 *)
SetResetPhase(t) ==
    /\ pc[t] = "s61"
    /\ phase' = ResetPhase(phase)
    /\ Goto(t, "s62")
    /\ UNCHANGED <<generation_mode, current_time_ms, wall, nticks,
                   loc, out, start, serVars, cliVars>>

(* app.py:62 *)
SetAssign(t) ==
    /\ pc[t] = "s62"
    /\ generation_mode' = NewMode(generation_mode, loc[t].mode)
    /\ Goto(t, "s63")
    /\ UNCHANGED <<current_time_ms, phase, wall, nticks,
                   loc, out, start, serVars, cliVars>>

(* app.py:63: print, from a read of the mode. *)
SetPrint(t) ==
    /\ pc[t] = "s63"
    /\ loc' = [loc EXCEPT ![t].printed = generation_mode]
    /\ Goto(t, "s64")
    /\ UNCHANGED <<generation_mode, current_time_ms, phase, wall, nticks,
                   out, start, serVars, cliVars>>

(* app.py:64: the response, from a fresh read of the mode. *)
SetReply(t) ==
    /\ pc[t] = "s64"
    /\ Reply(t, 200, [status |-> "success", new_mode |-> generation_mode])
    /\ UNCHANGED <<generation_mode, current_time_ms, phase, wall, nticks,
                   loc, start, serVars, cliVars>>

ConcNext ==
    \/ \E d \in TickSteps : Tick(d)
    \/ \E t \in DataThreads :
          \/ DataCheck(t)
          \/ DataRead24(t)
          \/ \E rolls \in RollSeqs : DataRead28(t, rolls)
          \/ DataValue(t)
          \/ DataPhaseRead(t)
          \/ DataPhaseWrite(t)
          \/ DataClockRead(t)
          \/ DataClockWrite(t)
          \/ DataStamp(t)
    \/ \E t \in SetThreads :
          \/ \E mode \in ModeInputs : SetCheck(t, mode)
          \/ SetSampleClock(t)
          \/ SetResetClock(t)
          \/ SetResetPhase(t)
          \/ SetAssign(t)
          \/ SetPrint(t)
          \/ SetReply(t)

SpecConc == ConcInit /\ [][ConcNext]_vars

----------------------------------------------------------------------------
(* control_backend.py, run once as a process (the __main__ block) or called *)
(* once as set_backend_mode(mode), against app.py serving one request at a  *)
(* time.  The request either fails in transport or is answered by app.py.   *)

VALID_MODES == <<"normal", "abnormal", "stopped">>

(* Variant: the list of modes before 'stop' was renamed. *)
CliIsValidLegacy(mode) == mode \in {"normal", "abnormal", "stop"}

CliIsValid(mode) == \E i \in DOMAIN VALID_MODES : VALID_MODES[i] = mode

(* control_backend.py:21, response.raise_for_status() *)
RaisesForStatus(status) == 400 <= status /\ status < 600

(* control_backend.py:24-26: a body declared JSON is parsed and .get is     *)
(* called on the result; that raises unless the body is a JSON object.      *)
BodyRaises(json, body) == json /\ body # "object"

(* The exit status of the process for the response requests.post returns. *)
CliExitFor(status, json, body) ==
    IF RaisesForStatus(status) THEN 1
    ELSE IF BodyRaises(json, body) THEN 1
    ELSE 0

(* A word of the command line is the sequence of its characters, each a    *)
(* Unicode code point.                                                      *)
Dash == 45
Equals == 61
Point == 46
Space == 32
Newline == 10
LetterH == 104

Spelling ==
    [normal |-> <<110, 111, 114, 109, 97, 108>>,
     abnormal |-> <<97, 98, 110, 111, 114, 109, 97, 108>>,
     stopped |-> <<115, 116, 111, 112, 112, 101, 100>>]

(* choices=VALID_MODES: the mode a word spells, "" when it spells none. *)
ChoiceOf(w) ==
    IF \E i \in DOMAIN VALID_MODES : Spelling[VALID_MODES[i]] = w
    THEN VALID_MODES[CHOOSE i \in DOMAIN VALID_MODES :
                        Spelling[VALID_MODES[i]] = w]
    ELSE ""

(* The option strings of the parser: the help option argparse adds. *)
OptH == <<Dash, LetterH>>
OptHelp == <<Dash, Dash, LetterH, 101, 108, 112>>
OptionStrings == {OptH, OptHelp}

EndOfOptions == <<Dash, Dash>>

(* \d of a str pattern matches every Unicode decimal digit; they come in    *)
(* runs of ten, and these are the zeros of the runs (Unicode 14.0, the      *)
(* database of Python 3.11).                                                *)
DigitZeros ==
    {48, 1632, 1776, 1984, 2406, 2534, 2662, 2790,
     2918, 3046, 3174, 3302, 3430, 3558, 3664, 3792,
     3872, 4160, 4240, 6112, 6160, 6470, 6608, 6784,
     6800, 6992, 7088, 7232, 7248, 42528, 43216, 43264,
     43472, 43504, 43600, 44016, 65296, 66720, 68912, 69734,
     69872, 69942, 70096, 70384, 70736, 70864, 71248, 71360,
     71472, 71904, 72016, 72784, 73040, 73120, 92768, 92864,
     93008, 120782, 120792, 120802, 120812, 120822, 123200, 123632,
     125264, 130032}

Digits == UNION {z..(z + 9) : z \in DigitZeros}

StartsWith(s, p) == Len(p) <= Len(s) /\ SubSeq(s, 1, Len(p)) = p

Contains(w, c) == \E i \in 1..Len(w) : w[i] = c

(* The position of the first c in w, 0 when there is none. *)
IndexOf(w, c) ==
    IF Contains(w, c)
    THEN CHOOSE i \in 1..Len(w) : w[i] = c /\ \A j \in 1..(i - 1) : w[j] # c
    ELSE 0

AllDigits(s) == \A i \in 1..Len(s) : s[i] \in Digits

(* $ of a pattern matches at the end of the word and before a newline that  *)
(* ends the word: the word without that newline.                            *)
BeforeFinalNewline(w) ==
    IF Len(w) >= 1 /\ w[Len(w)] = Newline THEN SubSeq(w, 1, Len(w) - 1)
    ELSE w

(* argparse's _negative_number_matcher, ^-\d+$|^-\d*\.\d+$: -digits, or     *)
(* -digits.digits with at least one digit after the point.                  *)
LooksNegativeNumber(w) ==
    LET v == BeforeFinalNewline(w)
    IN  /\ Len(v) >= 2
        /\ v[1] = Dash
        /\ LET b == SubSeq(v, 2, Len(v))
               i == IndexOf(b, Point)
           IN  \/ AllDigits(b)
               \/ /\ i > 0
                  /\ AllDigits(SubSeq(b, 1, i - 1))
                  /\ i < Len(b)
                  /\ AllDigits(SubSeq(b, i + 1, Len(b)))

Positional == [kind |-> "A", opt |-> <<>>, given |-> FALSE, text |-> <<>>]

Optional(opt, given, text) ==
    [kind |-> "O", opt |-> opt, given |-> given, text |-> text]

(* argparse's _parse_optional and _get_option_tuples: a word is a           *)
(* positional (kind "A") or an option (kind "O"): an option string, an      *)
(* option string with an explicit argument after "=", an abbreviation of    *)
(* --help, -h with the rest of the word as explicit argument, or an option  *)
(* the parser does not know (opt <<>>).                                     *)
ParseOptional(w) ==
    LET eq == IndexOf(w, Equals)
        before == IF eq > 0 THEN SubSeq(w, 1, eq - 1) ELSE w
        after == IF eq > 0 THEN SubSeq(w, eq + 1, Len(w)) ELSE <<>>
    IN  IF Len(w) = 0 THEN Positional
        ELSE IF w[1] # Dash THEN Positional
        ELSE IF w \in OptionStrings THEN Optional(w, FALSE, <<>>)
        ELSE IF Len(w) = 1 THEN Positional
        ELSE IF eq > 0 /\ before \in OptionStrings
             THEN Optional(before, TRUE, after)
        ELSE IF w[2] = Dash /\ StartsWith(OptHelp, before)
             THEN Optional(OptHelp, eq > 0, after)
        ELSE IF w[2] # Dash /\ SubSeq(w, 1, 2) = OptH
             THEN Optional(OptH, TRUE, SubSeq(w, 3, Len(w)))
        ELSE IF LooksNegativeNumber(w) THEN Positional
        ELSE IF Contains(w, Space) THEN Positional
        ELSE Optional(<<>>, FALSE, <<>>)

(* argparse's consume_optional for the help option (it takes no argument):  *)
(* without an explicit argument the help is printed and the exit is 0; the  *)
(* explicit argument of a one-letter option is read as more one-letter      *)
(* options, any other explicit argument is an error (exit 2).               *)
RECURSIVE HelpExit(_, _, _)
HelpExit(opt, given, text) ==
    IF ~given THEN 0
    ELSE IF opt[2] # Dash /\ Len(text) > 0
         THEN IF <<Dash, text[1]>> \in OptionStrings
              THEN HelpExit(<<Dash, text[1]>>, Len(text) > 1, Tail(text))
              ELSE 2
    ELSE 2

(* Words of the command lines drawn: modes and other words, the help option *)
(* by its names, abbreviated, repeated and with an explicit argument, the   *)
(* end-of-options mark, unknown options, negative numbers (plain, ending in *)
(* a newline, with a digit outside ASCII), a lone dash.                     *)
ArgvWords ==
    {
     <<110, 111, 114, 109, 97, 108>>,               \* normal
     <<97, 98, 110, 111, 114, 109, 97, 108>>,       \* abnormal
     <<115, 116, 111, 112, 112, 101, 100>>,         \* stopped
     <<115, 116, 111, 112>>,                        \* stop
     <<78, 111, 114, 109, 97, 108>>,                \* Normal
     <<45, 104>>,                                   \* -h
     <<45, 45, 104, 101, 108, 112>>,                \* --help
     <<45, 45, 104>>,                               \* --h
     <<45, 45, 104, 101>>,                          \* --he
     <<45, 104, 104>>,                              \* -hh
     <<45, 104, 120>>,                              \* -hx
     <<45, 45, 104, 101, 108, 112, 61, 49>>,        \* --help=1
     <<45, 45>>,                                    \* --
     <<45, 120>>,                                   \* -x
     <<45, 45, 102, 111, 111>>,                     \* --foo
     <<45, 49>>,                                    \* -1
     <<45>>,                                        \* -
     <<45, 49, 10>>,                                \* -1 and a newline
     <<45, 1633>>                                   \* - and ARABIC-INDIC DIGIT ONE
    }

ArgvInputs ==
    UNION {[1..n -> ArgvWords] : n \in 0..MaxArgv}

(* parser.parse_args() for one positional with choices and the help option, *)
(* read left to right from word i.  got is the mode taken ("" for none      *)
(* yet), raw holds after the first "--", extra once a word is left over.    *)
(* The help option exits where it is met; the word taken as mode is checked *)
(* against choices where it is met; a missing mode or a word left over      *)
(* exits 2 at the end.                                                      *)
RECURSIVE ParseArgs(_, _, _, _, _)
ParseArgs(argv, i, got, raw, extra) ==
    IF i > Len(argv)
    THEN IF got = "" \/ extra THEN [exit |-> 2, mode |-> ""]
         ELSE [exit |-> -1, mode |-> got]
    ELSE IF ~raw /\ argv[i] = EndOfOptions
         THEN ParseArgs(argv, i + 1, got, TRUE, extra)
    ELSE LET o == IF raw THEN Positional ELSE ParseOptional(argv[i])
         IN  IF o.kind = "O"
             THEN IF o.opt = <<>>
                  THEN ParseArgs(argv, i + 1, got, raw, TRUE)
                  ELSE [exit |-> HelpExit(o.opt, o.given, o.text),
                        mode |-> ""]
             ELSE IF got # ""
                  THEN ParseArgs(argv, i + 1, got, raw, TRUE)
             ELSE IF ChoiceOf(argv[i]) # ""
                  THEN ParseArgs(argv, i + 1, ChoiceOf(argv[i]), raw, extra)
             ELSE [exit |-> 2, mode |-> ""]

(* control_backend.py:10-20: the validation and the call of requests.post. *)
CliCall(mode) ==
    IF CliIsValid(mode)
    THEN [pc |-> "waiting", called |-> TRUE, mode |-> mode, posts |-> 1,
          exit |-> 0, outcome |-> NoOutcome]
    ELSE [pc |-> "exited", called |-> TRUE, mode |-> mode, posts |-> 0,
          exit |-> 1, outcome |-> NoOutcome]

(* argparse exits without calling set_backend_mode. *)
CliArgExit(code) ==
    [pc |-> "exited", called |-> FALSE, mode |-> "", posts |-> 0,
     exit |-> code, outcome |-> NoOutcome]

(* set_backend_mode(mode) called as a function. *)
CliStart(mode) ==
    /\ cli.pc = "none"
    /\ cli' = CliCall(mode)
    /\ UNCHANGED <<generation_mode, current_time_ms, phase, wall, nticks,
                   serVars, concVars>>

(* control_backend.py:39-48: python control_backend.py argv.  argparse      *)
(* exits (0 after printing the help, 2 on a usage error), or                *)
(* set_backend_mode is called with the mode it parsed.                      *)
CliMain(argv) ==
    /\ cli.pc = "none"
    /\ LET a == ParseArgs(argv, 1, "", FALSE, FALSE)
       IN  cli' = IF a.exit >= 0 THEN CliArgExit(a.exit)
                  ELSE CliCall(a.mode)
    /\ UNCHANGED <<generation_mode, current_time_ms, phase, wall, nticks,
                   serVars, concVars>>

(* app.py serves the POST in flight. *)
BackendServes ==
    LET r == set_mode(generation_mode, current_time_ms, phase, wall, cli.mode)
    IN  /\ generation_mode' = r.generation_mode
        /\ current_time_ms' = r.current_time_ms
        /\ phase' = r.phase

(* control_backend.py:32-34: requests.post raises; the request did or did   *)
(* not reach the server.                                                    *)
CliTransportError(delivered) ==
    /\ cli.pc = "waiting"
    /\ cli' = [cli EXCEPT !.pc = "exited", !.exit = 1,
                          !.outcome = [kind |-> "error", status |-> 0,
                                       json |-> FALSE, body |-> ""]]
    /\ IF delivered
       THEN BackendServes
       ELSE UNCHANGED <<generation_mode, current_time_ms, phase>>
    /\ UNCHANGED <<wall, nticks, serVars, concVars>>

(* The request is answered by app.py (jsonify: a JSON object). *)
CliBackendResponse ==
    /\ cli.pc = "waiting"
    /\ BackendServes
    /\ LET status == set_mode(generation_mode, current_time_ms, phase, wall,
                              cli.mode).status
       IN  cli' = [cli EXCEPT
                     !.pc = "exited",
                     !.exit = CliExitFor(status, TRUE, "object"),
                     !.outcome = [kind |-> "backend", status |-> status,
                                  json |-> TRUE, body |-> "object"]]
    /\ UNCHANGED <<wall, nticks, serVars, concVars>>

CliNext ==
    \/ \E d \in TickSteps : Tick(d)
    \/ \E mode \in ModeInputs : CliStart(mode)
    \/ \E argv \in ArgvInputs : CliMain(argv)
    \/ \E delivered \in BOOLEAN : CliTransportError(delivered)
    \/ CliBackendResponse

SpecCli == Init /\ [][CliNext]_vars

----------------------------------------------------------------------------
(* Properties.  A step serves a request iff it increments nreq; req' and    *)
(* resp' are then that request and its response.                            *)

Running == {"normal", "abnormal"}

ValidNames == {"stopped", "normal", "abnormal"}

Served(op) == nreq' = nreq + 1 /\ req'.op = op

StateUnchanged ==
    /\ generation_mode' = generation_mode
    /\ current_time_ms' = current_time_ms
    /\ phase' = phase

(* The milliseconds an ISO-8601 time of a point denotes. *)
TimeToMs(t) == t.sec * 1000 + t.usec \div 1000

(* C1: a set_mode request whose mode is not exactly 'stopped', 'normal' or  *)
(* 'abnormal' is answered 400 with the error body and leaves mode, clock    *)
(* and phase unchanged.                                                     *)
C1_InvalidModeRejected ==
    [][(Served("set_mode") /\ req'.mode \notin ValidNames)
       => (/\ resp'.status = 400
           /\ resp'.body.status = "error"
           /\ StateUnchanged)]_vars

C1_Witness ==
    /\ req.op = "set_mode"
    /\ req.mode = "Normal"
    /\ resp.status = 400
    /\ generation_mode = "abnormal"
    /\ phase > 0

(* C2: after an accepted set_mode(m), GET /status answers m until the next  *)
(* accepted set_mode, and the success response's new_mode is m.             *)
C2_StatusReturnsLastSetMode ==
    /\ (req.op = "status" /\ lastSet # "none") => resp.body.mode = lastSet
    /\ (req.op = "set_mode" /\ resp.status = 200)
       => (resp.body.status = "success" /\ resp.body.new_mode = req.mode)
    /\ (req.op = "set_mode" /\ req.mode \in ValidNames) => resp.status = 200

C2_Witness ==
    /\ req.op = "status"
    /\ lastSet = "abnormal"
    /\ resp.body.mode = "abnormal"
    /\ k >= 1
    /\ nreq >= 4

(* C3: while the mode is Stopped, GET /data answers the empty list and      *)
(* changes neither the clock nor the phase.                                 *)
C3_StoppedDataIsEmpty ==
    [][(Served("data") /\ generation_mode = "stopped")
       => (resp'.status = 200 /\ resp'.body = <<>> /\ StateUnchanged)]_vars

C3_Witness ==
    /\ req.op = "data"
    /\ generation_mode = "stopped"
    /\ resp.body = <<>>
    /\ restarts >= 1
    /\ phase > 0

(* C4: set_mode(m), m running, issued while Stopped sets the clock to the   *)
(* wall clock (ms), the phase to 0 and the mode to m; the first point       *)
(* generated afterwards is computed from phase 0.                           *)
C4_FirstPointFromPhaseZero ==
    (req.op = "data" /\ Len(resp.body) = 1 /\ k = 1)
    => resp.body[1].value = Round2(GenValue(generation_mode, 0, req.rolls))

C4_RestartResets ==
    [][/\ (Served("set_mode") /\ req'.mode \in Running
                              /\ generation_mode = "stopped")
          => (/\ current_time_ms' = WallClockMs(wall)
              /\ phase' = 0
              /\ generation_mode' = req'.mode)
       /\ C4_FirstPointFromPhaseZero']_vars

C4_Witness ==
    /\ req.op = "data"
    /\ Len(resp.body) = 1
    /\ k = 1
    /\ restarts >= 2
    /\ pre.phase > 0
    /\ generation_mode = "abnormal"
    /\ resp.body[1].value = 6500

(* C5: set_mode with a valid mode, on every edge other than Stopped ->      *)
(* running, changes the mode only.                                          *)
C5_OtherEdgesKeepClockAndPhase ==
    [][(/\ Served("set_mode")
        /\ req'.mode \in ValidNames
        /\ ~(generation_mode = "stopped" /\ req'.mode \in Running))
       => (/\ generation_mode' = req'.mode
           /\ current_time_ms' = current_time_ms
           /\ phase' = phase)]_vars

C5_Witness ==
    /\ req.op = "set_mode"
    /\ req.mode = "abnormal"
    /\ generation_mode = "abnormal"
    /\ k >= 1
    /\ phase = NormalPhaseStep
    /\ current_time_ms = restartWallMs + time_increment_ms

(* C6: every generated point advances the clock by exactly 100 ms and       *)
(* carries the advanced clock as its time, whatever the wall clock did      *)
(* meanwhile; consecutive points of one run are 100 ms apart and the k-th   *)
(* point after a restart is timed 100*k ms after the restart's wall clock.  *)
C6_KthPointTime ==
    (req.op = "data" /\ Len(resp.body) = 1)
    => (/\ TimeToMs(resp.body[1].time) = current_time_ms
        /\ TimeToMs(resp.body[1].time) = restartWallMs + 100 * k)

C6_ClockStepsBy100 ==
    [][/\ (Served("data") /\ generation_mode \in Running)
          => (/\ Len(resp'.body) = 1
              /\ current_time_ms' = current_time_ms + 100
              /\ prevTime # NoTime
                 => TimeToMs(resp'.body[1].time) - TimeToMs(prevTime) = 100)
       /\ C6_KthPointTime']_vars

C6_Witness ==
    /\ req.op = "data"
    /\ Len(resp.body) = 1
    /\ k = 2
    /\ restarts >= 1
    /\ WallClockMs(wall) >= restartWallMs + 1000
    /\ TimeToMs(resp.body[1].time) = restartWallMs + 200
    /\ TimeToMs(prevTime) = current_time_ms

(* C7 as stated: the clock never decreases, over any step. *)
C7_ClockNeverDecreases ==
    [][current_time_ms' >= current_time_ms]_vars

(* C7, amended: the clock never decreases over a step other than a restart  *)
(* (a set_mode that takes the mode from Stopped to a running mode); a       *)
(* restart sets it to the wall clock, whatever it was before, so it         *)
(* decreases exactly when the clock was ahead of the wall clock.            *)
C7_ClockMonotoneExceptRestart ==
    [][/\ ~Restarted => current_time_ms' >= current_time_ms
       /\ Restarted
          => /\ current_time_ms' = WallClockMs(wall)
             /\ current_time_ms' < current_time_ms
                <=> current_time_ms > WallClockMs(wall)]_vars

C7_Witness ==
    /\ restarts >= 2
    /\ k = 0
    /\ generation_mode \in Running
    /\ current_time_ms = restartWallMs
    /\ pre.ts > current_time_ms

(* C8: the phase never decreases over a step that keeps the mode running    *)
(* (Normal <-> Abnormal switches included) and does not change over a step  *)
(* that keeps the mode Stopped.                                             *)
C8_PhaseMonotoneWhileRunning ==
    [][/\ (generation_mode \in Running /\ generation_mode' \in Running)
          => phase' >= phase
       /\ (generation_mode = "stopped" /\ generation_mode' = "stopped")
          => phase' = phase]_vars

C8_Witness ==
    /\ phase = NormalPhaseStep + AbnormalPhaseStep
    /\ generation_mode = "abnormal"
    /\ req.op = "data"
    /\ k = 2

(* C9: after set_mode(normal), some points, set_mode(stopped) and           *)
(* set_mode(normal), the phase is 0 and the clock is the wall clock of the  *)
(* restart; the first point then generated in Normal mode has value 60.00,  *)
(* whatever the phase was before the stop.                                  *)
C9_RoundTripRestartsFromZero ==
    /\ (restarts >= 1 /\ k = 0 /\ generation_mode \in Running)
       => (phase = 0 /\ current_time_ms = restartWallMs)
    /\ (req.op = "data" /\ Len(resp.body) = 1 /\ k = 1
                        /\ generation_mode = "normal")
       => (resp.body[1].value = 6000 /\ phase = 10)

C9_Witness ==
    /\ restarts = 2
    /\ pre.phase > 0
    /\ generation_mode = "normal"
    /\ lastSet = "normal"
    /\ req.op = "data"
    /\ k = 1
    /\ resp.body[1].value = 6000

(* C10: in Abnormal mode every GET /data returns exactly one point and      *)
(* advances the clock by 100 ms; the phase is unchanged on a spike and      *)
(* advances by 0.45 otherwise; in Normal mode it advances by 0.5.           *)
C10_PhaseStepPerBranch ==
    [][/\ (Served("data") /\ generation_mode = "abnormal")
          => (/\ Len(resp'.body) = 1
              /\ current_time_ms' = current_time_ms + 100
              /\ IsSpike(req'.rolls) => phase' = phase
              /\ ~IsSpike(req'.rolls) => phase' = phase + 9)
       /\ (Served("data") /\ generation_mode = "normal")
          => (/\ Len(resp'.body) = 1
              /\ current_time_ms' = current_time_ms + 100
              /\ phase' = phase + 10)]_vars

C10_Witness ==
    /\ req.op = "data"
    /\ generation_mode = "abnormal"
    /\ Len(req.rolls) = 2
    /\ Len(resp.body) = 1
    /\ resp.body[1].value = 13312
    /\ phase = AbnormalPhaseStep
    /\ k = 2

(* C11 as stated: a rejected set_mode is answered 400 with the message      *)
(* 'Invalid mode. Use one of: stopped, normal, abnormal', an accepted one   *)
(* 200 with status success and new_mode the requested mode.                 *)
C11_ResponsesAsStated ==
    req.op = "set_mode"
    => \/ /\ resp.status = 400
          /\ resp.body = [status |-> "error",
                          message |-> <<"Invalid mode. Use one of: ",
                                        "stopped", ", ", "normal", ", ",
                                        "abnormal">>]
       \/ /\ resp.status = 200
          /\ resp.body = [status |-> "success", new_mode |-> req.mode]

(* C11, amended: the message of the 400 response lists the modes in the     *)
(* order normal, abnormal, stopped; the 200 response is as stated.  A       *)
(* request is rejected iff its mode is not one of the three.                *)
C11_ResponsesOfSetMode ==
    req.op = "set_mode"
    => /\ req.mode \notin ValidNames
          => /\ resp.status = 400
             /\ resp.body = [status |-> "error",
                             message |-> <<"Invalid mode. Use one of: ",
                                           "normal", ", ", "abnormal", ", ",
                                           "stopped">>]
       /\ req.mode \in ValidNames
          => /\ resp.status = 200
             /\ resp.body = [status |-> "success", new_mode |-> req.mode]

C11_Witness ==
    /\ req.op = "set_mode"
    /\ req.mode = "stop"
    /\ resp.status = 400
    /\ resp.body.message[2] = "normal"
    /\ lastSet = "abnormal"

(* C12: GET /status changes neither mode, clock nor phase, answers the      *)
(* current mode, and two GET /status with no set_mode between them answer   *)
(* the same mode.                                                           *)
C12_StatusIsPureRead ==
    [][Served("status")
       => (/\ StateUnchanged
           /\ resp'.status = 200
           /\ resp'.body.mode = generation_mode
           /\ statusRun.n >= 1 => resp'.body.mode = statusRun.mode)]_vars

C12_Witness ==
    /\ req.op = "status"
    /\ statusRun.n = 2
    /\ statusRun.mode = "normal"
    /\ k >= 1
    /\ phase = NormalPhaseStep

(* C16: a set_mode(m) that directly follows an accepted set_mode(m) leaves  *)
(* mode, clock and phase unchanged.                                         *)
C16_SetModeIdempotent ==
    [][(/\ Served("set_mode")
        /\ req.op = "set_mode" /\ resp.status = 200
        /\ req'.mode = req.mode)
       => (resp'.status = 200 /\ StateUnchanged)]_vars

C16_Witness ==
    /\ repeatSet
    /\ req.mode = "normal"
    /\ generation_mode = "normal"
    /\ restarts = 1
    /\ phase = 0
    /\ current_time_ms = restartWallMs
    /\ WallClockMs(wall) > restartWallMs

(* C17: the process starts Stopped with phase 0, and the stored mode is     *)
(* always one of the three names: a request string that is not one of them  *)
(* never becomes the mode.                                                  *)
C17_ModeAlwaysValid ==
    /\ generation_mode \in ValidNames
    /\ nreq = 0 => (generation_mode = "stopped" /\ phase = 0)
    /\ (req.op = "set_mode" /\ req.mode \notin ValidNames)
       => generation_mode # req.mode

C17_Witness ==
    /\ req.op = "set_mode"
    /\ req.mode = "stop"
    /\ generation_mode = "normal"
    /\ statusRun.n = 0
    /\ nreq = MaxReq
    /\ k >= 1

----------------------------------------------------------------------------
(* Properties of the concurrent execution (SpecConc). *)

BothDataDone == \A t \in DataThreads : pc[t] = "done"

NoSetMode == \A t \in SetThreads : pc[t] = "idle"

PointTimes == {TimeToMs(out[t].body[1].time) : t \in DataThreads}

(* C13: two concurrent GET /data in a running mode, with no set_mode, each  *)
(* return one point, and the unsynchronised read-modify-write of the clock  *)
(* (and of the phase) can lose an update: the clock has advanced by 200 ms  *)
(* or by 100 ms only, and in the latter case both points carry the same     *)
(* time, start + 100 ms.                                                    *)
C13_LostUpdateOfClock ==
    (BothDataDone /\ NoSetMode /\ start.mode \in Running)
    => /\ \A t \in DataThreads : Len(out[t].body) = 1
       /\ current_time_ms - start.ts \in {100, 200}
       /\ PointTimes \subseteq {start.ts + 100, start.ts + 200}
       /\ current_time_ms - start.ts = 100 => PointTimes = {start.ts + 100}
       /\ start.mode = "normal" => phase - start.phase \in {10, 20}

C13_Witness ==
    /\ BothDataDone
    /\ NoSetMode
    /\ start.mode = "normal"
    /\ \A t \in DataThreads : Len(out[t].body) = 1
    /\ current_time_ms = start.ts + 100
    /\ PointTimes = {start.ts + 100}
    /\ phase = start.phase + 10

(* C14 as stated: with GET /data racing a set_mode('stopped'), no response  *)
(* carries a point of the stopped branch of generate_ecg_point (value 0.0)  *)
(* and the clock does not advance while the mode is Stopped.                *)
C14_StoppedBranchUnreachable ==
    [][(\A t \in SetThreads : pc'[t] = "idle" \/ loc'[t].mode = "stopped")
       => /\ \A t \in DataThreads :
                (pc'[t] = "done" /\ Len(out'[t].body) = 1)
                => out'[t].body[1].value # 0
          /\ (generation_mode = "stopped" /\ generation_mode' = "stopped")
             => current_time_ms' = current_time_ms]_vars

----------------------------------------------------------------------------
(* Properties of the command-line process (SpecCli). *)

CliTransportOrHttpError ==
    \/ cli.outcome.kind = "error"
    \/ (400 <= cli.outcome.status /\ cli.outcome.status <= 599)

====
